---- MODULE Spec2Model ----
(***************************************************************************)
(* leibniz: compile-time type relation proofs for TypeScript.              *)
(*                                                                         *)
(* A type is a set of union members (atoms) in the normal form the type    *)
(* checker keeps: never is the empty union, any and unknown absorb the     *)
(* other members, a literal is absorbed by its base primitive.  A proof    *)
(* type is a union (set of alternatives) of intersections (sets) of        *)
(* function signatures.  A harness call testX<A, B>(refl) is accepted      *)
(* when the generic identity function refl is assignable to X<A, B>.       *)
(***************************************************************************)
EXTENDS Naturals, FiniteSets, Sequences

VARIABLES A, B, C, Y, N, fn, accepted, resolved, strictFunctionTypes,
          doc, rel, w, trace, heap, castArg, castRes

\* What the type checker works on: the type arguments of the instantiation
\* under check (doc is the label '_doc', rel the argument of testRel) and its
\* outcome.
typeVars == <<A, B, C, Y, N, fn, accepted, resolved, strictFunctionTypes, doc, rel>>

\* What exists at run time: the witness value at hand, the functions applied
\* to it so far, the state a test thunk could touch, and the argument and
\* result of the last cast.
runVars == <<w, trace, heap, castArg, castRes>>

vars == <<typeVars, runVars>>

\* Largest number of members of a union type argument.
MaxUnion == 2

------------------------------------------------------------------------------
\* The type universe.

Atoms == {"any", "unknown", "number", "string", "1", "true", "false", "ObjX", "ObjXY"}

Never == {}
Any == {"any"}
Unknown == {"unknown"}
Number == {"number"}
String == {"string"}
One == {"1"}
True == {"true"}
False == {"false"}
Boolean == {"true", "false"}
ObjX == {"ObjX"}
ObjXY == {"ObjXY"}

\* Properties of the object types: ObjX is { x: number }, ObjXY is
\* { x: number; y: string }.
Props(a) == IF a = "ObjX" THEN {"x"} ELSE IF a = "ObjXY" THEN {"x", "y"} ELSE {}

IsObj(a) == a \in {"ObjX", "ObjXY"}

\* The base primitive of a literal type.
Base(a) == IF a = "1" THEN "number" ELSE a

\* Union normal form: any absorbs everything, unknown everything but any,
\* a primitive absorbs its literals.
Normalize(S) ==
    IF "any" \in S THEN Any
    ELSE IF "unknown" \in S THEN Unknown
    ELSE {a \in S : Base(a) = a \/ Base(a) \notin S}

\* The union of a set of types.
UnionOf(Ts) == Normalize(UNION Ts)

Types == {Normalize(S) : S \in {S0 \in SUBSET Atoms : Cardinality(S0) <= MaxUnion}}

\* The outcome types a predicate is instantiated with: the declared defaults
\* (unknown, never), and two pairs of unrelated types.
Outcomes == {<<Unknown, Never>>, <<True, False>>, <<Number, String>>}

------------------------------------------------------------------------------
\* Assignability, as the type checker decides it.

\* Between two non-union members.
AtomAssignable(s, t) ==
    \/ s = t
    \/ Base(s) = t
    \/ IsObj(s) /\ IsObj(t) /\ Props(t) \subseteq Props(s)

\* S is assignable to T ('S extends T' of a resolved conditional type).
Assignable(S, T) ==
    IF S = Never THEN TRUE
    ELSE IF T = Never THEN FALSE
    ELSE IF T = Any \/ T = Unknown THEN TRUE
    ELSE IF S = Any THEN TRUE
    ELSE IF S = Unknown THEN FALSE
    ELSE \A s \in S : \E t \in T : AtomAssignable(s, t)

\* The function type (x: P) => R.
Sig(P, R) == [param |-> P, ret |-> R]

\* Function type S is assignable to function type T: the return types
\* covariantly, the parameters contravariantly under strictFunctionTypes and
\* bivariantly without it.
FnAssignable(S, T, strict) ==
    /\ Assignable(S.ret, T.ret)
    /\ \/ Assignable(T.param, S.param)
       \/ ~strict /\ Assignable(S.param, T.param)

\* A conditional type 'S extends T ? Yes : No' on a check type that is not
\* distributed: any as the check type yields both branches unless T is any or
\* unknown.
Cond(S, T, Yes, No) ==
    IF S = Any /\ T # Any /\ T # Unknown THEN UnionOf({Yes, No})
    ELSE IF Assignable(S, T) THEN Yes
    ELSE No

\* A conditional type whose check type is a naked type parameter: it is
\* distributed over the members of a union check type, and never (the empty
\* union) yields never.
DistCond(S, T, Yes, No) == UnionOf({Cond({s}, T, Yes, No) : s \in S})

------------------------------------------------------------------------------
\* Leibniz.ts

\* Eq with the conversion from B to A forgotten.
EqOneWay(a, b) == {{Sig(a, b)}}

\* Eq<A, B> = ((x: A) => B) & ((x: B) => A)
Eq(a, b) == {{Sig(a, b), Sig(b, a)}}

\* Intersection and union of proof types.
And(P, Q) == {pq[1] \cup pq[2] : pq \in P \X Q}
Or(P, Q) == P \cup Q

\* refl<T>(x: T): T is assignable to one signature: T is inferred from the
\* target's parameter and the instantiated signature is compared.
reflSig(sig, strict) ==
    LET T == sig.param
    IN FnAssignable(Sig(T, T), sig, strict)

\* refl type-checks against proof type P.
refl(P, strict) == \E alt \in P : \A sig \in alt : reflSig(sig, strict)

\* IfEq with the second, nested extends check forgotten.
IfEqOneWay(a, b, yes, no, strict) ==
    IF FnAssignable(Sig(a, b), Sig(b, a), strict) THEN yes ELSE no

\* IfEq<A, B, Y, N> (Leibniz.ts): the check type is a function type, so the
\* conditional is not distributed.
IfEq(a, b, yes, no, strict) ==
    IF FnAssignable(Sig(a, b), Sig(b, a), strict)
    THEN IF FnAssignable(Sig(b, a), Sig(a, b), strict) THEN yes ELSE no
    ELSE no

------------------------------------------------------------------------------
\* Propositions.ts

\* IfEq<A, B, Y, N> as Propositions.ts declares it again.
PropositionsIfEq(a, b, yes, no, strict) ==
    IF FnAssignable(Sig(a, b), Sig(b, a), strict)
    THEN IF FnAssignable(Sig(b, a), Sig(a, b), strict) THEN yes ELSE no
    ELSE no

\* IfSub<A, B, Y, N> = A extends B ? Y : N
IfSub(a, b, yes, no) == DistCond(a, b, yes, no)

\* IfSuper<A, B, Y, N> = B extends A ? Y : N
IfSuper(a, b, yes, no) == DistCond(b, a, yes, no)

\* IfDisjoint with the nested 'B extends A' check forgotten.
IfDisjointSubOnly(a, b, yes, no) == DistCond(a, b, no, yes)

\* IfDisjoint<A, B, Y, N> = A extends B ? N : B extends A ? N : Y, distributed
\* over A, and the inner conditional over B for each member of A.
IfDisjoint(a, b, yes, no) ==
    UnionOf({Cond({m}, b, no, DistCond(b, {m}, no, yes)) : m \in a})

------------------------------------------------------------------------------
\* Proofs.ts

NotEq(a, b, strict) == Eq(IfEq(a, b, True, False, strict), False)

Sub(a, b) == Eq(DistCond(a, b, True, False), True)

NotSub(a, b) == Eq(DistCond(a, b, True, False), False)

Super(a, b) == Sub(b, a)

NotSuper(a, b) == NotSub(b, a)

\* StrictSub with the NotEq conjunct forgotten.
StrictSubNoNotEq(a, b, strict) == Sub(a, b)

StrictSub(a, b, strict) == And(Sub(a, b), NotEq(a, b, strict))

Disjoint(a, b) == And(NotSub(a, b), NotSuper(a, b))

NotStrictSub(a, b) == Or(Super(a, b), Disjoint(a, b))

StrictSuper(a, b, strict) == And(Super(a, b), NotEq(a, b, strict))

NotStrictSuper(a, b) == Or(Sub(a, b), Disjoint(a, b))

Related(a, b) == Or(Sub(a, b), Super(a, b))

------------------------------------------------------------------------------
\* Run time.  A function value is the sequence of its wrappers ending in the
\* function wrapped; refl is <<"refl">>.

reflValue == <<"refl">>

\* The labels a test is documented with; "" is the default of '_doc'.
Docs == {"", "label"}

\* The state a thunk could touch: a counter of the enclosing scope, the
\* number of invocations, and whether an exception escaped.
InitHeap == [store |-> 0, invoked |-> 0, thrown |-> FALSE]

\* The thunks passed to test: one without effect, one that assigns to the
\* enclosing scope, one that throws.
Thunks == {"pure", "mutates", "throws"}

\* A call of the thunk.
Invoke(thunk, h) ==
    [store |-> IF thunk = "mutates" THEN h.store + 1 ELSE h.store,
     invoked |-> h.invoked + 1,
     thrown |-> h.thrown \/ thunk = "throws"]

\* test with a body that calls its argument.
testInvokes(thunk, h) == Invoke(thunk, h)

\* test<_doc>(_: () => void): void {}: the body is empty.
test(thunk, h) == h

\* The values cast is applied to.
RunValues == {"3", "quux", "obj"}

\* A test function: return p.
testIdentity(p) == p

\* sym returning a new closure around its argument.
symWrapped(p) == <<"wrap">> \o p

\* sym: return p.
sym(p) == p

\* trans: return refl as any.
transValue(p, q) == reflValue

\* sub1: return sym(trans(sym(_1), _2)).
sub1(p, q) == sym(transValue(sym(p), q))

\* sub2: return trans(_1, _2).
sub2(p, q) == transValue(p, q)

\* cast: return p.
cast(p) == p

\* refl: return x.
reflApply(x) == x

\* The call f(x) of a function value: refl returns its argument, a wrapper
\* calls what it wraps.
Apply(f, x) == IF f[Len(f)] = "refl" THEN reflApply(x) ELSE "undefined"

\* The test functions of the harness.
HarnessNames ==
    {"testEq", "testNotEq", "testDisjoint", "testSub", "testNotSub",
     "testStrictSub", "testNotStrictSub", "testSuper", "testNotSuper",
     "testStrictSuper", "testNotStrictSuper"}

\* Largest number of functions applied in one run.
MaxSteps == 2

------------------------------------------------------------------------------
\* The compilation of one instantiation over the declared types A and B.

Init ==
    /\ A \in Types
    /\ B \in Types
    /\ strictFunctionTypes \in BOOLEAN
    /\ C = Never
    /\ Y = Unknown
    /\ N = Never
    /\ fn = "none"
    /\ accepted = FALSE
    /\ resolved = Never
    /\ doc = ""
    /\ rel = "none"
    /\ w = reflValue
    /\ trace = <<>>
    /\ heap = InitHeap
    /\ castArg = "none"
    /\ castRes = "none"

\* A harness function whose parameter type mentions the label.
CallLabelChecked(name, P) ==
    \E d \in Docs :
        /\ fn = "none"
        /\ fn' = name
        /\ doc' = d
        /\ accepted' = (d = "" /\ refl(P, strictFunctionTypes))
        /\ w' = testIdentity(reflValue)
        /\ UNCHANGED <<A, B, C, Y, N, resolved, strictFunctionTypes, rel>>
        /\ UNCHANGED <<trace, heap, castArg, castRes>>

\* The call fn<A, B, _doc>(refl) of a harness function whose parameter has
\* proof type P: it is accepted when refl is assignable to P, whatever the
\* label, and returns the proof passed.
Call(name, P) ==
    \E d \in Docs :
        /\ fn = "none"
        /\ fn' = name
        /\ doc' = d
        /\ accepted' = refl(P, strictFunctionTypes)
        /\ w' = testIdentity(reflValue)
        /\ UNCHANGED <<A, B, C, Y, N, resolved, strictFunctionTypes, rel>>
        /\ UNCHANGED <<trace, heap, castArg, castRes>>

testEq == Call("testEq", Eq(A, B))

testNotEq == Call("testNotEq", NotEq(A, B, strictFunctionTypes))

testDisjoint == Call("testDisjoint", Disjoint(A, B))

testSub == Call("testSub", Sub(A, B))

testNotSub == Call("testNotSub", NotSub(A, B))

testStrictSub == Call("testStrictSub", StrictSub(A, B, strictFunctionTypes))

testNotStrictSub == Call("testNotStrictSub", NotStrictSub(A, B))

testSuper == Call("testSuper", Super(A, B))

testNotSuper == Call("testNotSuper", NotSuper(A, B))

testStrictSuper == Call("testStrictSuper", StrictSuper(A, B, strictFunctionTypes))

testNotStrictSuper == Call("testNotStrictSuper", NotStrictSuper(A, B))

\* The earlier testSub<_ extends B, B>() and testSuper<A, _ extends A>(), which
\* take no proof: the instantiation is accepted when the type argument
\* satisfies the constraint of its type parameter.
Instantiate(name, ok) ==
    \E d \in Docs :
        /\ fn = "none"
        /\ fn' = name
        /\ doc' = d
        /\ accepted' = ok
        /\ UNCHANGED <<A, B, C, Y, N, resolved, strictFunctionTypes, rel>>
        /\ UNCHANGED runVars

testSubConstraint == Instantiate("testSub()", Assignable(A, B))

testSuperConstraint == Instantiate("testSuper()", Assignable(B, A))

\* The instantiation of a predicate alias with outcome types yn: the type it
\* resolves to.
Resolve(name, yn, T) ==
    /\ fn = "none"
    /\ fn' = name
    /\ Y' = yn[1]
    /\ N' = yn[2]
    /\ resolved' = T
    /\ UNCHANGED <<A, B, C, accepted, strictFunctionTypes, doc, rel>>
    /\ UNCHANGED runVars

EvalIfEq ==
    \E yn \in Outcomes :
        Resolve("IfEq", yn, IfEq(A, B, yn[1], yn[2], strictFunctionTypes))

EvalPropositionsIfEq ==
    \E yn \in Outcomes :
        Resolve("Propositions.IfEq", yn,
                PropositionsIfEq(A, B, yn[1], yn[2], strictFunctionTypes))

EvalIfSub == \E yn \in Outcomes : Resolve("IfSub", yn, IfSub(A, B, yn[1], yn[2]))

EvalIfSuper == \E yn \in Outcomes : Resolve("IfSuper", yn, IfSuper(A, B, yn[1], yn[2]))

EvalIfDisjoint ==
    \E yn \in Outcomes : Resolve("IfDisjoint", yn, IfDisjoint(A, B, yn[1], yn[2]))

\* The call trans<A, B, C>(refl, refl): accepted when refl is assignable to
\* both parameter types; its declared result type is Eq<A, C>.
trans ==
    \E c \in Types :
        /\ fn = "none"
        /\ fn' = "trans"
        /\ C' = c
        /\ accepted' = (refl(Eq(A, B), strictFunctionTypes)
                        /\ refl(Eq(B, c), strictFunctionTypes))
        /\ UNCHANGED <<A, B, Y, N, resolved, strictFunctionTypes, doc, rel>>
        /\ UNCHANGED runVars

\* The compositions testRel is instantiated with: those the documentation
\* gives, and the definition of every named relation.
RelExprs ==
    {"Eq", "NotEq", "Sub", "NotSub", "Super", "NotSuper", "Sub & NotEq",
     "Super | Disjoint", "Super & NotEq", "Sub | Disjoint", "Sub | Super",
     "NotSub & NotSuper", "Related & NotEq"}

RelExpr(r, a, b, strict) ==
    CASE r = "Eq" -> Eq(a, b)
      [] r = "NotEq" -> NotEq(a, b, strict)
      [] r = "Sub" -> Sub(a, b)
      [] r = "NotSub" -> NotSub(a, b)
      [] r = "Super" -> Super(a, b)
      [] r = "NotSuper" -> NotSuper(a, b)
      [] r = "Sub & NotEq" -> And(Sub(a, b), NotEq(a, b, strict))
      [] r = "Super | Disjoint" -> Or(Super(a, b), Disjoint(a, b))
      [] r = "Super & NotEq" -> And(Super(a, b), NotEq(a, b, strict))
      [] r = "Sub | Disjoint" -> Or(Sub(a, b), Disjoint(a, b))
      [] r = "Sub | Super" -> Or(Sub(a, b), Super(a, b))
      [] r = "NotSub & NotSuper" -> And(NotSub(a, b), NotSuper(a, b))
      [] r = "Related & NotEq" -> And(Related(a, b), NotEq(a, b, strict))

\* testRel<Rel, _doc>(refl): the generic test function, the identity
\* restricted to the proof type Rel.
testRel ==
    \E r \in RelExprs, d \in Docs :
        /\ fn = "none"
        /\ fn' = "testRel"
        /\ rel' = r
        /\ doc' = d
        /\ accepted' = refl(RelExpr(r, A, B, strictFunctionTypes), strictFunctionTypes)
        /\ UNCHANGED <<A, B, C, Y, N, resolved, strictFunctionTypes>>
        /\ UNCHANGED runVars

\* testRelated<A, B, _doc>(refl)
testRelated == Call("testRelated", Related(A, B))

Next ==
    \/ testEq
    \/ testNotEq
    \/ testDisjoint
    \/ testSub
    \/ testNotSub
    \/ testStrictSub
    \/ testNotStrictSub
    \/ testSuper
    \/ testNotSuper
    \/ testStrictSuper
    \/ testNotStrictSuper
    \/ EvalIfEq
    \/ EvalPropositionsIfEq
    \/ EvalIfSub
    \/ EvalIfSuper
    \/ EvalIfDisjoint
    \/ trans
    \/ testSubConstraint
    \/ testSuperConstraint
    \/ testRel
    \/ testRelated

Spec == Init /\ [][Next]_vars

------------------------------------------------------------------------------
\* A run of the compiled program: witnesses are built from refl and used.

InitRun ==
    /\ A = Never
    /\ B = Never
    /\ C = Never
    /\ Y = Unknown
    /\ N = Never
    /\ fn = "none"
    /\ accepted = FALSE
    /\ resolved = Never
    /\ strictFunctionTypes \in BOOLEAN
    /\ doc = ""
    /\ rel = "none"
    /\ w = reflValue
    /\ trace = <<>>
    /\ heap = InitHeap
    /\ castArg = "none"
    /\ castRes = "none"

\* One more function applied to the witness at hand, giving witness v.
Step(name, v) ==
    /\ Len(trace) < MaxSteps
    /\ trace' = Append(trace, name)
    /\ w' = v
    /\ UNCHANGED <<heap, castArg, castRes>>
    /\ UNCHANGED typeVars

RunSym == Step("sym", sym(w))

RunTrans == \E q \in {w, reflValue} : Step("trans", transValue(w, q))

RunSub1 == \E q \in {w, reflValue} : Step("sub1", sub1(w, q))

RunSub2 == \E q \in {w, reflValue} : Step("sub2", sub2(w, q))

RunTestFn == \E name \in HarnessNames : Step(name, testIdentity(w))

\* cast(w)(x)
RunCast ==
    \E x \in RunValues :
        /\ Len(trace) < MaxSteps
        /\ trace' = Append(trace, "cast")
        /\ castArg' = x
        /\ castRes' = Apply(cast(w), x)
        /\ UNCHANGED <<w, heap>>
        /\ UNCHANGED typeVars

\* test(thunk)
RunTest ==
    \E thunk \in Thunks :
        /\ Len(trace) < MaxSteps
        /\ trace' = Append(trace, "test:" \o thunk)
        /\ heap' = test(thunk, heap)
        /\ UNCHANGED <<w, castArg, castRes>>
        /\ UNCHANGED typeVars

NextRun ==
    \/ RunSym
    \/ RunTrans
    \/ RunSub1
    \/ RunSub2
    \/ RunTestFn
    \/ RunCast
    \/ RunTest

SpecRun == InitRun /\ [][NextRun]_vars

------------------------------------------------------------------------------
\* Properties.

\* refl type-checks against proof type P under the build's flags.
Inhabited(P) == refl(P, strictFunctionTypes)

MutuallyAssignable(a, b) == Assignable(a, b) /\ Assignable(b, a)

\* The four classes of C1 that are inhabited for the pair (a, b).
Classes(a, b) ==
    {r \in {"StrictSub", "StrictSuper", "Eq", "Disjoint"} :
        \/ r = "StrictSub" /\ Inhabited(StrictSub(a, b, strictFunctionTypes))
        \/ r = "StrictSuper" /\ Inhabited(StrictSuper(a, b, strictFunctionTypes))
        \/ r = "Eq" /\ Inhabited(Eq(a, b))
        \/ r = "Disjoint" /\ Inhabited(Disjoint(a, b))}

\* C1: for every pair A, B exactly one of StrictSub<A,B>, StrictSuper<A,B>,
\* Eq<A,B>, Disjoint<A,B> is inhabited by refl.
C1_ExactlyOneClass ==
    fn \in {"testStrictSub", "testStrictSuper", "testEq", "testDisjoint"}
        => Cardinality(Classes(A, B)) = 1

\* C2: testSub<A, B>(refl) is accepted if and only if A is assignable to B.
C2_SubIffAssignable ==
    fn = "testSub" => (accepted <=> Assignable(A, B))

\* C3: testNotSub<A, B>(refl) is accepted if and only if A is not assignable
\* to B, and exactly one of Sub<A,B> and NotSub<A,B> is inhabited.
C3_NotSubIffNotAssignable ==
    fn = "testNotSub" =>
        /\ accepted <=> ~Assignable(A, B)
        /\ accepted <=> ~Inhabited(Sub(A, B))

C5_NotEqIffNotEq ==
    fn = "testNotEq" => (accepted <=> ~Inhabited(Eq(A, B)))

C5_Witness ==
    fn = "testNotEq" /\ accepted /\ A = One /\ B = Number

\* C6: NotStrictSub<A,B> is inhabited if and only if StrictSub<A,B> is not,
\* and NotStrictSuper<A,B> if and only if StrictSuper<A,B> is not.
C6_NotStrictIffNotStrict ==
    /\ fn = "testNotStrictSub" =>
           (accepted <=> ~Inhabited(StrictSub(A, B, strictFunctionTypes)))
    /\ fn = "testNotStrictSuper" =>
           (accepted <=> ~Inhabited(StrictSuper(A, B, strictFunctionTypes)))

\* C7: Disjoint<A,B> is inhabited if and only if neither Sub<A,B> nor
\* Super<A,B> is, that is exactly one of Related<A,B> and Disjoint<A,B> is
\* inhabited.
C7_DisjointIffNotRelated ==
    fn = "testDisjoint" =>
        /\ accepted <=> (~Inhabited(Sub(A, B)) /\ ~Inhabited(Super(A, B)))
        /\ accepted <=> ~Inhabited(Related(A, B))

\* C8: each predicate evaluator resolves to exactly Y or exactly N.
C8_EvaluatorTotal ==
    fn \in {"IfEq", "Propositions.IfEq", "IfSub", "IfSuper", "IfDisjoint"}
        => resolved \in {Y, N}

\* C9: if Eq<A,B> and Eq<B,C> are inhabited (the call trans<A,B,C>(refl, refl)
\* is accepted) then Eq<A,C>, the result type of trans, is inhabited.
C9_Transitive ==
    (fn = "trans" /\ accepted) => Inhabited(Eq(A, C))

\* C10: the proof built directly from a predicate is inhabited exactly when
\* the proof type of Proofs.ts is, for Disjoint, Sub and Super.
C10_DirectAgreesWithComposed ==
    /\ fn = "testDisjoint" =>
           (accepted <=> Inhabited(Eq(IfDisjoint(A, B, True, False), True)))
    /\ fn = "testSub" =>
           (accepted <=> Inhabited(Eq(IfSub(A, B, True, False), True)))
    /\ fn = "testSuper" =>
           (accepted <=> Inhabited(Eq(IfSuper(A, B, True, False), True)))

C10_Witness ==
    fn = "testDisjoint" /\ accepted /\ A = Number /\ B = String

\* C11: whenever Eq<A,B> is inhabited, Sub<A,B> and Super<A,B> are inhabited
\* and the Subtype and Supertype predicates resolve to Y.
C11_NonStrictIncludesEq ==
    Inhabited(Eq(A, B)) =>
        /\ fn \in {"testSub", "testSuper"} => accepted
        /\ fn \in {"IfSub", "IfSuper"} => resolved = Y

\* C12: for a type X not assignable to A, Sub<A, A | X> and StrictSub<A, A | X>
\* are inhabited (the states whose B is A | X), and Sub<B | X, B> is not
\* inhabited while StrictSuper<B | X, B> is (the states whose A is B | X).
C12_UnionMembership ==
    /\ \A X \in Types :
           (~Assignable(X, A) /\ B = UnionOf({A, X})) =>
               (fn \in {"testSub", "testStrictSub"} => accepted)
    /\ \A X \in Types :
           (~Assignable(X, B) /\ A = UnionOf({B, X})) =>
               /\ fn = "testSub" => ~accepted
               /\ fn = "testStrictSuper" => accepted

\* C17: the constraint-based testSub<A, B>() is accepted exactly when the
\* proof-based testSub<A, B>(refl) is, and likewise for testSuper.
C17_VariantsAgree ==
    /\ fn = "testSub()" => (accepted <=> Inhabited(Sub(A, B)))
    /\ fn = "testSuper()" => (accepted <=> Inhabited(Super(A, B)))

\* The proof type of the parameter of each named test function.
Relation(name, a, b, strict) ==
    CASE name = "testEq" -> Eq(a, b)
      [] name = "testNotEq" -> NotEq(a, b, strict)
      [] name = "testDisjoint" -> Disjoint(a, b)
      [] name = "testSub" -> Sub(a, b)
      [] name = "testNotSub" -> NotSub(a, b)
      [] name = "testStrictSub" -> StrictSub(a, b, strict)
      [] name = "testNotStrictSub" -> NotStrictSub(a, b)
      [] name = "testSuper" -> Super(a, b)
      [] name = "testNotSuper" -> NotSuper(a, b)
      [] name = "testStrictSuper" -> StrictSuper(a, b, strict)
      [] name = "testNotStrictSuper" -> NotStrictSuper(a, b)
      [] name = "testRelated" -> Related(a, b)

TestNames == HarnessNames \cup {"testRelated"}

\* C13: the label of a test function is inert: whatever label the call is
\* given, it is accepted exactly when refl inhabits the proof type of A and B
\* (for the constraint variants, exactly when the constraint holds), and what
\* it returns is the proof passed.
C13_DocInert ==
    /\ fn \in TestNames =>
           /\ accepted <=> Inhabited(Relation(fn, A, B, strictFunctionTypes))
           /\ w = reflValue
    /\ fn = "testRel" =>
           (accepted <=> Inhabited(RelExpr(rel, A, B, strictFunctionTypes)))
    /\ fn = "testSub()" => (accepted <=> Assignable(A, B))
    /\ fn = "testSuper()" => (accepted <=> Assignable(B, A))

C13_Witness ==
    fn = "testStrictSub" /\ doc = "label" /\ accepted /\ A = One /\ B = Number

\* The composition each named test function is a specialization of testRel to.
Specialization(name) ==
    CASE name = "testEq" -> "Eq"
      [] name = "testNotEq" -> "NotEq"
      [] name = "testDisjoint" -> "NotSub & NotSuper"
      [] name = "testSub" -> "Sub"
      [] name = "testNotSub" -> "NotSub"
      [] name = "testStrictSub" -> "Sub & NotEq"
      [] name = "testNotStrictSub" -> "Super | Disjoint"
      [] name = "testSuper" -> "Super"
      [] name = "testNotSuper" -> "NotSuper"
      [] name = "testStrictSuper" -> "Super & NotEq"
      [] name = "testNotStrictSuper" -> "Sub | Disjoint"
      [] name = "testRelated" -> "Sub | Super"

LastStep == IF trace = <<>> THEN "none" ELSE trace[Len(trace)]

\* C15: test never invokes its thunk, also one that would throw or mutate
\* state: after any calls of test no invocation was made, nothing was
\* thrown, and the state the thunk could touch is as it was.
C15_TestNeverInvokes ==
    /\ heap.invoked = 0
    /\ ~heap.thrown
    /\ heap.store = InitHeap.store

C15_Witness ==
    LastStep = "test:throws" /\ heap = InitHeap

\* C16: every witness built from refl by sym, trans, sub1, sub2 and the test
\* functions is refl itself, and cast of it returns its argument unchanged.
C16_WitnessIsRefl ==
    /\ w = reflValue
    /\ LastStep = "cast" => castRes = castArg

C16_Witness ==
    /\ Len(trace) = 2
    /\ trace[1] = "trans"
    /\ LastStep = "cast"
    /\ castRes = "quux"

====
